---------------------------- MODULE Spec2Model ----------------------------
(***************************************************************************)
(* A model of sshconfig_to_iterm.py: the resolution of an OpenSSH config   *)
(* file and its Include directives into host entries, the generation of    *)
(* iTerm2 profile records, and the two writers, driven by main.            *)
(*                                                                         *)
(* Text is modelled as a sequence of one-character strings, so that strip, *)
(* split, lower, the quote removal, the path functions, the glob and the   *)
(* sort are computed on characters the way the Python code computes them.  *)
(***************************************************************************)
EXTENDS Integers, Sequences, FiniteSets, TLC

(***************************************************************************)
(* Characters                                                              *)
(***************************************************************************)

\* ord(c) for the characters the model uses (ASCII).
Ord(c) ==
    CASE c = "\t" -> 9   [] c = " " -> 32  [] c = "\"" -> 34 [] c = "#" -> 35
      [] c = "'" -> 39   [] c = "*" -> 42  [] c = "." -> 46  [] c = "/" -> 47
      [] c = "C" -> 67   [] c = "D" -> 68  [] c = "E" -> 69  [] c = "H" -> 72
      [] c = "I" -> 73   [] c = "L" -> 76  [] c = "N" -> 78  [] c = "O" -> 79
      [] c = "S" -> 83   [] c = "T" -> 84  [] c = "U" -> 85  [] c = "Y" -> 89
      [] c = "_" -> 95   [] c = "a" -> 97  [] c = "b" -> 98  [] c = "c" -> 99
      [] c = "d" -> 100  [] c = "e" -> 101 [] c = "h" -> 104 [] c = "i" -> 105
      [] c = "j" -> 106  [] c = "l" -> 108 [] c = "n" -> 110 [] c = "o" -> 111
      [] c = "r" -> 114  [] c = "s" -> 115 [] c = "t" -> 116 [] c = "u" -> 117
      [] c = "w" -> 119  [] c = "x" -> 120 [] c = "y" -> 121 [] c = "z" -> 122
      [] c = "~" -> 126

\* str.isspace for one character.
IsSpace(c) == c \in {" ", "\t"}

\* str.lower for one character.
LowerChar(c) ==
    IF Ord(c) >= 65 /\ Ord(c) <= 90
    THEN CHOOSE l \in {"c", "d", "e", "h", "i", "l", "n", "o", "s", "t", "u", "y"} :
            Ord(l) = Ord(c) + 32
    ELSE c

(***************************************************************************)
(* Strings                                                                 *)
(***************************************************************************)

\* str.lower
Lower(s) == [i \in 1..Len(s) |-> LowerChar(s[i])]

RECURSIVE LStrip(_)
\* str.lstrip
LStrip(s) == IF s # <<>> /\ IsSpace(Head(s)) THEN LStrip(Tail(s)) ELSE s

RECURSIVE RStrip(_)
\* str.rstrip
RStrip(s) ==
    IF s # <<>> /\ IsSpace(s[Len(s)]) THEN RStrip(SubSeq(s, 1, Len(s) - 1)) ELSE s

\* str.strip
Strip(s) == RStrip(LStrip(s))

\* str.startswith / str.endswith for a one-character prefix or suffix
StartsWith(s, c) == s # <<>> /\ s[1] = c
EndsWith(s, c) == s # <<>> /\ s[Len(s)] = c

RECURSIVE SplitFrom(_, _, _)
\* str.split(): the tokens of s between runs of whitespace; cur is the token
\* being read and acc the tokens read so far.
SplitFrom(s, cur, acc) ==
    IF s = <<>> THEN (IF cur = <<>> THEN acc ELSE Append(acc, cur))
    ELSE IF IsSpace(Head(s))
         THEN SplitFrom(Tail(s), <<>>, IF cur = <<>> THEN acc ELSE Append(acc, cur))
         ELSE SplitFrom(Tail(s), Append(cur, Head(s)), acc)

Split(s) == SplitFrom(s, <<>>, <<>>)

RECURSIVE Join(_)
\* ' '.join(tokens)
Join(tokens) ==
    IF tokens = <<>> THEN <<>>
    ELSE IF Len(tokens) = 1 THEN tokens[1]
    ELSE tokens[1] \o <<" ">> \o Join(Tail(tokens))

RECURSIVE Replace(_, _, _)
\* str.replace(old, new) for a one-character old
Replace(s, old, new) ==
    IF s = <<>> THEN <<>>
    ELSE (IF Head(s) = old THEN new ELSE <<Head(s)>>) \o Replace(Tail(s), old, new)

RECURSIVE StrLess(_, _)
\* s < t for Python strings: lexicographic by code point
StrLess(s, t) ==
    IF t = <<>> THEN FALSE
    ELSE IF s = <<>> THEN TRUE
    ELSE IF Head(s) = Head(t) THEN StrLess(Tail(s), Tail(t))
    ELSE Ord(Head(s)) < Ord(Head(t))

(***************************************************************************)
(* The file system the program reads.  The root directory holds the one    *)
(* directory /h, which is the home directory and the working directory;    *)
(* /h holds the entries fs describes.  An entry is a regular file (with    *)
(* its lines, readable or not), a symbolic link to another entry of /h, an *)
(* empty subdirectory, or absent.                                          *)
(***************************************************************************)
VARIABLES fs

\* The names an entry of /h can have.
Names == {"a", "b", "c", "d", "l"}

\* $HOME and os.getcwd()
Home == <<"/", "h">>
Cwd == <<"/", "h">>

NoNode == [kind |-> "none", ino |-> "", readable |-> FALSE, lines |-> <<>>]
DirNode(which) == [kind |-> "dir", ino |-> which, readable |-> TRUE, lines |-> <<>>]

RECURSIVE SplitSlashFrom(_, _, _)
\* path.split('/'): the components of s between slashes, empty ones included.
SplitSlashFrom(s, cur, acc) ==
    IF s = <<>> THEN Append(acc, cur)
    ELSE IF Head(s) = "/" THEN SplitSlashFrom(Tail(s), <<>>, Append(acc, cur))
    ELSE SplitSlashFrom(Tail(s), Append(cur, Head(s)), acc)

SplitSlash(s) == SplitSlashFrom(s, <<>>, <<>>)

\* The entry of /h called n with a symbolic link followed (a link's target is
\* looked up once: a link to a link or to nothing resolves to nothing).
Deref(n) ==
    LET e == fs[n] IN
    IF e.kind = "link"
    THEN (IF fs[e.target].kind \in {"file", "dir"}
          THEN [kind |-> fs[e.target].kind, ino |-> e.target,
                readable |-> fs[e.target].readable, lines |-> fs[e.target].lines]
          ELSE NoNode)
    ELSE IF e.kind \in {"file", "dir"}
    THEN [kind |-> e.kind, ino |-> n, readable |-> e.readable, lines |-> e.lines]
    ELSE NoNode

RECURSIVE Walk(_, _)
\* The kernel's path resolution: the node the components comps lead to from the
\* directory at ("root", "home", or the name of a subdirectory of /h).
Walk(comps, at) ==
    IF comps = <<>> THEN DirNode(at)
    ELSE LET c == Head(comps) rest == Tail(comps) IN
         IF c = <<>> \/ c = <<".">> THEN Walk(rest, at)
         ELSE IF at = "root"
         THEN (IF c = <<".", ".">> THEN Walk(rest, "root")
               ELSE IF c = <<"h">> THEN Walk(rest, "home")
               ELSE NoNode)
         ELSE IF at = "home"
         THEN (IF c = <<".", ".">> THEN Walk(rest, "root")
               ELSE IF Len(c) = 1 /\ c[1] \in Names
               THEN LET node == Deref(c[1]) IN
                    IF node.kind = "dir" THEN Walk(rest, node.ino)
                    ELSE IF node.kind = "file" /\ rest = <<>> THEN node
                    ELSE NoNode
               ELSE NoNode)
         ELSE (IF c = <<".", ".">> THEN Walk(rest, "home") ELSE NoNode)

\* os.stat of an absolute path, symbolic links followed; "none" when it fails.
Stat(p) ==
    IF ~StartsWith(p, "/") THEN NoNode
    ELSE LET node == Walk(SplitSlash(p), "root") IN
         IF node.kind = "file" /\ EndsWith(p, "/") THEN NoNode ELSE node

\* os.path.exists, os.path.isfile, os.path.isdir
Exists(p) == Stat(p).kind # "none"
IsFile(p) == Stat(p).kind = "file"
IsDir(p) == Stat(p).kind = "dir"

\* os.path.lexists: as exists, but a dangling symbolic link exists too.
LExists(p) ==
    \/ Exists(p)
    \/ LET comps == SplitSlash(p) IN
       /\ StartsWith(p, "/")
       /\ Len(comps) >= 1
       /\ LET last == comps[Len(comps)] IN
          /\ Len(last) = 1 /\ last[1] \in Names
          /\ fs[last[1]].kind = "link"
          /\ Walk(SubSeq(comps, 1, Len(comps) - 1), "root") = DirNode("home")

\* os.listdir of a directory node.
ListDir(node) ==
    IF node.kind # "dir" THEN {}
    ELSE IF node.ino = "root" THEN {<<"h">>}
    ELSE IF node.ino = "home" THEN {<<n>> : n \in {m \in Names : fs[m].kind # "none"}}
    ELSE {}

(***************************************************************************)
(* os.path                                                                 *)
(***************************************************************************)

\* The least index i >= from with s[i] = c, or Len(s) + 1.
RECURSIVE Find(_, _, _)
Find(s, c, from) ==
    IF from > Len(s) THEN Len(s) + 1
    ELSE IF s[from] = c THEN from ELSE Find(s, c, from + 1)

\* The greatest index i with s[i] = c, or 0.
RECURSIVE RFind(_, _, _)
RFind(s, c, upto) ==
    IF upto = 0 THEN 0
    ELSE IF s[upto] = c THEN upto ELSE RFind(s, c, upto - 1)

RECURSIVE RStripSlash(_)
\* s.rstrip('/')
RStripSlash(s) ==
    IF s # <<>> /\ s[Len(s)] = "/" THEN RStripSlash(SubSeq(s, 1, Len(s) - 1)) ELSE s

\* os.path.expanduser: ~ and ~/rest become $HOME and $HOME/rest; ~user is left
\* alone (no such user).
ExpandUser(p) ==
    IF ~StartsWith(p, "~") THEN p
    ELSE LET i == Find(p, "/", 2) IN
         IF i # 2 THEN p
         ELSE LET r == RStripSlash(Home) \o SubSeq(p, i, Len(p)) IN
              IF r = <<>> THEN <<"/">> ELSE r

\* os.path.expandvars: no character of the model starts a variable reference.
ExpandVars(p) == p

\* os.path.isabs
IsAbs(p) == StartsWith(p, "/")

\* os.path.join(a, b)
PathJoin(a, b) ==
    IF StartsWith(b, "/") THEN b
    ELSE IF a = <<>> \/ EndsWith(a, "/") THEN a \o b
    ELSE a \o <<"/">> \o b

RECURSIVE NormComps(_, _, _)
\* The loop of os.path.normpath over the components.
NormComps(comps, abs, new) ==
    IF comps = <<>> THEN new
    ELSE LET c == Head(comps) IN
         IF c = <<>> \/ c = <<".">> THEN NormComps(Tail(comps), abs, new)
         ELSE IF \/ c # <<".", ".">>
                 \/ (~abs /\ new = <<>>)
                 \/ (new # <<>> /\ new[Len(new)] = <<".", ".">>)
         THEN NormComps(Tail(comps), abs, Append(new, c))
         ELSE IF new # <<>>
         THEN NormComps(Tail(comps), abs, SubSeq(new, 1, Len(new) - 1))
         ELSE NormComps(Tail(comps), abs, new)

RECURSIVE JoinSlash(_)
\* '/'.join(comps)
JoinSlash(comps) ==
    IF comps = <<>> THEN <<>>
    ELSE IF Len(comps) = 1 THEN comps[1]
    ELSE comps[1] \o <<"/">> \o JoinSlash(Tail(comps))

\* os.path.normpath
NormPath(p) ==
    IF p = <<>> THEN <<".">>
    ELSE LET abs == StartsWith(p, "/")
             two == /\ Len(p) >= 2 /\ p[2] = "/" /\ abs
                    /\ ~(Len(p) >= 3 /\ p[3] = "/")
             body == JoinSlash(NormComps(SplitSlash(p), abs, <<>>))
             r == IF abs THEN (IF two THEN <<"/", "/">> ELSE <<"/">>) \o body
                  ELSE body
         IN IF r = <<>> THEN <<".">> ELSE r

\* os.path.abspath
AbsPath(p) == NormPath(IF IsAbs(p) THEN p ELSE PathJoin(Cwd, p))

\* os.path.split: (head, tail) around the last slash.
PathSplit(p) ==
    LET i == RFind(p, "/", Len(p))
        head == SubSeq(p, 1, i)
        tail == SubSeq(p, i + 1, Len(p))
    IN <<IF RStripSlash(head) = <<>> THEN head ELSE RStripSlash(head), tail>>

\* os.path.dirname
DirName(p) == PathSplit(p)[1]

\* expand_path
expand_path(path) == AbsPath(ExpandVars(ExpandUser(path)))

(***************************************************************************)
(* glob                                                                    *)
(***************************************************************************)

\* glob.has_magic
HasMagic(s) == \E i \in 1..Len(s) : s[i] = "*"

RECURSIVE FnMatch(_, _)
\* fnmatch.fnmatchcase(name, pat), the only wildcard of the model being *.
FnMatch(name, pat) ==
    IF pat = <<>> THEN name = <<>>
    ELSE IF Head(pat) = "*"
    THEN \/ FnMatch(name, Tail(pat))
         \/ (name # <<>> /\ FnMatch(Tail(name), pat))
    ELSE name # <<>> /\ Head(name) = Head(pat) /\ FnMatch(Tail(name), Tail(pat))

\* glob._glob1 and glob._glob0: the names of directory dir that match basename.
GlobInDir(dir, base) ==
    IF HasMagic(base)
    THEN {n \in ListDir(Stat(dir)) :
            /\ FnMatch(n, base)
            /\ (StartsWith(n, ".") => StartsWith(base, "."))}
    ELSE IF base = <<>> THEN (IF IsDir(dir) THEN {base} ELSE {})
    ELSE IF LExists(PathJoin(dir, base)) THEN {base} ELSE {}

RECURSIVE Glob(_)
\* glob.glob(pattern): the set of paths that match, in no particular order.
Glob(pattern) ==
    IF ~HasMagic(pattern)
    THEN (IF LExists(pattern) THEN {pattern} ELSE {})
    ELSE LET dir == PathSplit(pattern)[1]
             base == PathSplit(pattern)[2]
             dirs == IF dir # pattern /\ HasMagic(dir) THEN Glob(dir) ELSE {dir}
         IN UNION {{PathJoin(d, n) : n \in GlobInDir(d, base)} : d \in dirs}

RECURSIVE Sorted(_)
\* sorted(paths): the paths in ascending order of StrLess.
Sorted(paths) ==
    IF paths = {} THEN <<>>
    ELSE LET least == CHOOSE p \in paths : \A q \in paths \ {p} : StrLess(p, q)
         IN <<least>> \o Sorted(paths \ {least})

(***************************************************************************)
(* The program's state                                                     *)
(***************************************************************************)
VARIABLES
    verbose,   \* main's verbose flag, passed down to every function
    pc,        \* where the run is: start, parse, parsed, generated, write, done
    stack,     \* the activations of parse_config_file, the innermost last
    visited,   \* parse_ssh_config's visited set
    hosts,     \* the list parse_ssh_config returned
    out,       \* what was printed, in order
    calls,     \* history: every call of parse_config_file and how it ended
    args,      \* the command line flags main has read so far
    profiles,  \* the list generate_profiles returned
    uuids,     \* how many identifiers uuid.uuid4 has handed out
    disk,      \* the output directory: file path -> the object written there
    writing,   \* write_multi_file's loop index
    status     \* how the run ended

vars == <<fs, verbose, pc, stack, visited, hosts, out, calls, args, profiles,
          uuids, disk, writing, status>>

KwInclude == <<"i", "n", "c", "l", "u", "d", "e">>
KwHost == <<"h", "o", "s", "t">>

\* parse_config_file's print calls, each made only when verbose.
Say(log, msgs) == IF verbose THEN log \o msgs ELSE log

(***************************************************************************)
(* resolve_includes                                                        *)
(***************************************************************************)

\* The removal of one layer of surrounding quotes.
Unquote(pattern) ==
    IF \/ (StartsWith(pattern, "\"") /\ EndsWith(pattern, "\""))
       \/ (StartsWith(pattern, "'") /\ EndsWith(pattern, "'"))
    THEN SubSeq(pattern, 2, Len(pattern) - 1)
    ELSE pattern

\* The pattern made absolute: relative to the including file's directory.
Anchor(pattern, current_dir) ==
    IF ~IsAbs(pattern) THEN PathJoin(current_dir, pattern) ELSE pattern

\* A list of the paths in the order opposite to sorted's.
RECURSIVE SortedDescending(_)
SortedDescending(paths) ==
    IF paths = {} THEN <<>>
    ELSE LET most == CHOOSE p \in paths : \A q \in paths \ {p} : StrLess(q, p)
         IN <<most>> \o SortedDescending(paths \ {most})

\* The order in which the matches of one Include line are resolved.
MatchOrder(paths) == Sorted(paths)

resolve_includes(include_line, current_dir) ==
    LET pattern == Anchor(ExpandUser(Unquote(Strip(include_line))), current_dir)
        matches == Glob(pattern)
    IN MatchOrder({f \in matches : IsFile(f)})

(***************************************************************************)
(* parse_config_file                                                       *)
(***************************************************************************)

\* What the loop body does with one line: "skip" (blank, comment, a directive
\* without argument, another keyword), "include" or "host".
LineKind(raw) ==
    LET line == Strip(raw) IN
    IF line = <<>> \/ StartsWith(line, "#") THEN "skip"
    ELSE LET tokens == Split(line) IN
         IF tokens = <<>> THEN "skip"
         ELSE LET keyword == Lower(tokens[1]) IN
              IF keyword = KwInclude
              THEN (IF Len(tokens) < 2 THEN "skip" ELSE "include")
              ELSE IF keyword = KwHost
              THEN (IF Len(tokens) < 2 THEN "skip" ELSE "host")
              ELSE "skip"

\* tokens[1:] of a line
Arguments(raw) == Tail(Split(Strip(raw)))

\* The innermost activation.
Top == stack[Len(stack)]

\* Every alias is kept, the wildcard too.
KeepAlias(host_name) == TRUE

\* An alias the file has already declared is not kept a second time.
IsNewAlias(host_name) ==
    /\ host_name # <<"*">>
    /\ \A k \in 1..Len(Top.hosts) : Top.hosts[k].name # host_name

\* Whether the loop over host_names appends an entry for host_name.
IsKept(host_name) == host_name # <<"*">>

RECURSIVE HostEntriesFrom(_, _, _)
\* The entries one Host line appends: one per alias that is not the wildcard,
\* in token order.  origin (the place of the line) and tok (the alias's number
\* on the line) are history, not part of the Python dictionary.
HostEntriesFrom(host_names, origin, tok) ==
    IF host_names = <<>> THEN <<>>
    ELSE (IF IsKept(Head(host_names))
          THEN <<[name |-> Head(host_names), origin |-> origin, tok |-> tok]>>
          ELSE <<>>)
         \o HostEntriesFrom(Tail(host_names), origin, tok + 1)

\* The activation of parse_ssh_config itself, which calls parse_config_file
\* on config_path.
RootFrame(config_path) ==
    [path |-> <<>>, dir |-> <<>>, ino |-> "", lines |-> <<>>, i |-> 1,
     pending |-> <<config_path>>, incLine |-> 0, hosts |-> <<>>, trail |-> <<>>]

\* The place of a line or of an included file in the traversal.
Place(line, path) == [line |-> line, path |-> path]

\* The caller abandons its own loop: its remaining lines and includes are dropped.
AbandonCaller(stk) ==
    [stk EXCEPT ![Len(stk)].pending = <<>>, ![Len(stk)].i = Len(stk[Len(stk)].lines) + 1]

\* The stack after the call at the head of the caller's pending list returned
\* the empty list: hosts.extend([]) changes nothing and the loop goes on.
ReturnedEmpty(stk) == [stk EXCEPT ![Len(stk)].pending = Tail(@)]

\* The visited set with every path forgotten.
ForgetVisited(seen, path) == {}

\* visited.add(file_path)
MarkVisited(seen, path) == seen \cup {path}

Called(raw, outcome) ==
    Append(calls, [path |-> AbsPath(raw), from |-> raw, ino |-> Stat(AbsPath(raw)).ino,
                   outcome |-> outcome, trail |-> Append(Top.trail, Place(Top.incLine, raw))])

Quiet == UNCHANGED <<fs, verbose, hosts, args, profiles, uuids, disk, writing, status>>

\* The deepest nesting of activations the model follows (the root activation
\* and one per path of the file system, and one to spare).
MaxDepth == 6

\* Lines 93-99: the file was visited before.
EnterVisited ==
    /\ pc = "parse" /\ stack # <<>> /\ Top.pending # <<>>
    /\ LET raw == Head(Top.pending) file_path == AbsPath(raw) IN
       /\ file_path \in visited
       /\ out' = Say(out, <<[kind |-> "visited", path |-> file_path]>>)
       /\ calls' = Called(raw, "visited")
       /\ stack' = ReturnedEmpty(stack)
       /\ UNCHANGED <<visited, pc>>
    /\ Quiet

\* Lines 101-106: the file does not exist.
EnterMissing ==
    /\ pc = "parse" /\ stack # <<>> /\ Top.pending # <<>>
    /\ LET raw == Head(Top.pending) file_path == AbsPath(raw) IN
       /\ file_path \notin visited
       /\ ~Exists(file_path)
       /\ visited' = MarkVisited(visited, file_path)
       /\ out' = Say(out, <<[kind |-> "not found", path |-> file_path]>>)
       /\ calls' = Called(raw, "missing")
       /\ stack' = ReturnedEmpty(stack)
       /\ UNCHANGED pc
    /\ Quiet

\* open(file_path, 'r') succeeds on a readable regular file.
CanOpen(file_path) == Stat(file_path).kind = "file" /\ Stat(file_path).readable

\* Lines 101-115, 163-167: the file exists and open raises (a directory, no
\* permission); the exception is caught and the empty hosts list returned.
EnterError ==
    /\ pc = "parse" /\ stack # <<>> /\ Top.pending # <<>>
    /\ LET raw == Head(Top.pending) file_path == AbsPath(raw) IN
       /\ file_path \notin visited
       /\ Exists(file_path)
       /\ ~CanOpen(file_path)
       /\ visited' = MarkVisited(visited, file_path)
       /\ out' = Say(out, <<[kind |-> "parsing", path |-> file_path],
                            [kind |-> "error", path |-> file_path]>>)
       /\ calls' = Called(raw, "error")
       /\ stack' = ReturnedEmpty(stack)
       /\ UNCHANGED pc
    /\ Quiet

\* Lines 101-116: the file is opened and its loop starts.
EnterOpen ==
    /\ pc = "parse" /\ stack # <<>> /\ Top.pending # <<>>
    /\ LET raw == Head(Top.pending) file_path == AbsPath(raw) IN
       /\ file_path \notin visited
       /\ Exists(file_path)
       /\ CanOpen(file_path)
       /\ Len(stack) < MaxDepth
       /\ visited' = MarkVisited(visited, file_path)
       /\ out' = Say(out, <<[kind |-> "parsing", path |-> file_path]>>)
       /\ calls' = Called(raw, "parsed")
       /\ stack' = Append(stack,
             [path |-> file_path, dir |-> DirName(file_path),
              ino |-> Stat(file_path).ino, lines |-> Stat(file_path).lines,
              i |-> 1, pending |-> <<>>, incLine |-> 0, hosts |-> <<>>,
              trail |-> Append(Top.trail, Place(Top.incLine, raw))])
       /\ UNCHANGED pc
    /\ Quiet

\* The loop of line 116 has a next line to read.
AtLine == /\ pc = "parse" /\ stack # <<>> /\ Top.pending = <<>>
          /\ Top.i <= Len(Top.lines)

\* Lines 117-129, 133-134, 147-148: a line that changes nothing.
SkipLine ==
    /\ AtLine
    /\ LineKind(Top.lines[Top.i]) = "skip"
    /\ stack' = [stack EXCEPT ![Len(stack)].i = @ + 1]
    /\ UNCHANGED <<visited, pc, out, calls>>
    /\ Quiet

\* Lines 131-143: an Include line; its files are then parsed one by one.
IncludeLine ==
    /\ AtLine
    /\ LineKind(Top.lines[Top.i]) = "include"
    /\ LET include_pattern == Join(Arguments(Top.lines[Top.i]))
           included_files == resolve_includes(include_pattern, Top.dir)
       IN /\ out' = IF included_files # <<>>
                    THEN Say(out, <<[kind |-> "resolved", path |-> Top.path]>>)
                    ELSE out
          /\ stack' = [stack EXCEPT ![Len(stack)].pending = included_files,
                                    ![Len(stack)].incLine = Top.i,
                                    ![Len(stack)].i = @ + 1]
    /\ UNCHANGED <<visited, pc, calls>>
    /\ Quiet

\* Lines 145-161: a Host line.
HostLine ==
    /\ AtLine
    /\ LineKind(Top.lines[Top.i]) = "host"
    /\ LET host_names == Arguments(Top.lines[Top.i]) IN
       stack' = [stack EXCEPT
                   ![Len(stack)].hosts =
                       @ \o HostEntriesFrom(host_names,
                                Append(Top.trail, Place(Top.i, <<>>)), 1),
                   ![Len(stack)].i = @ + 1]
    /\ UNCHANGED <<visited, pc, out, calls>>
    /\ Quiet

\* Lines 143, 167: the file is read to its end; its hosts extend the caller's.
ReturnHosts ==
    /\ pc = "parse" /\ Len(stack) > 1
    /\ Top.pending = <<>> /\ Top.i > Len(Top.lines)
    /\ LET caller == Len(stack) - 1 IN
       stack' = [SubSeq(stack, 1, caller) EXCEPT
                   ![caller].hosts = @ \o Top.hosts,
                   ![caller].pending = Tail(@)]
    /\ UNCHANGED <<visited, pc, out, calls>>
    /\ Quiet

\* Line 183: parse_ssh_config returns what parse_config_file returned.
ResolveReturn ==
    /\ pc = "parse" /\ Len(stack) = 1 /\ Top.pending = <<>>
    /\ hosts' = Top.hosts
    /\ stack' = <<>>
    /\ pc' = "parsed"
    /\ UNCHANGED <<fs, verbose, visited, out, calls, args, profiles, uuids, disk,
                   writing, status>>

(***************************************************************************)
(* The inputs: the files of /h                                             *)
(***************************************************************************)

\* The longest top-level config file drawn line by line.
MaxLines == 2

Absent == [kind |-> "none", readable |-> FALSE, lines |-> <<>>, target |-> ""]
RegularFile(lines) == [kind |-> "file", readable |-> TRUE, lines |-> lines, target |-> ""]
Unreadable == [kind |-> "file", readable |-> FALSE, lines |-> <<>>, target |-> ""]
SubDir == [kind |-> "dir", readable |-> TRUE, lines |-> <<>>, target |-> ""]
LinkTo(n) == [kind |-> "link", readable |-> TRUE, lines |-> <<>>, target |-> n]

\* Lines of a config file.
HostAB == <<"H", "o", "s", "t", " ", "a", " ", "b">>
HostStar == <<"H", "o", "s", "t", " ", "*">>
HostCStarC == <<"h", "o", "s", "t", " ", "c", " ", "*", " ", "c">>
HostC == <<"H", "o", "s", "t", " ", "c">>
HostB == <<"H", "o", "s", "t", " ", "b">>
HostCSlash == <<"H", "o", "s", "t", " ", "c", " ", "a", "/", "b">>
HostTabbed == <<"\t", "H", "O", "S", "T", "\t", "c", " ", " ">>
IncludeB == <<"I", "n", "c", "l", "u", "d", "e", " ", "b">>
IncludeAll == <<"I", "n", "c", "l", "u", "d", "e", " ", "\"", "*", "\"">>
IncludeDotC == <<"I", "n", "c", "l", "u", "d", "e", " ", ".", "/", "c">>
IncludeASpaced == <<" ", "i", "n", "c", "l", "u", "d", "e", " ", " ", "a", " ">>
IncludeBQuoted == <<"I", "n", "c", "l", "u", "d", "e", " ", "'", "b", "'">>
IncludeCDotDot == <<"I", "N", "C", "L", "U", "D", "E", " ", "/", "h", "/", ".", ".", "/", "h", "/", "c">>
IncludeTilde == <<"I", "n", "c", "l", "u", "d", "e", " ", "~", "/", "b">>
Comment == <<"#", " ", "H", "o", "s", "t", " ", "x">>
Blank == <<" ", " ">>
BareHost == <<"H", "o", "s", "t">>
BareInclude == <<"I", "n", "c", "l", "u", "d", "e">>
OtherKeyword == <<"U", "s", "e", "r", " ", "x">>

\* The lines the top-level file /h/a is drawn from.
TopLines == {HostAB, HostStar, HostCStarC, IncludeB, IncludeAll, IncludeDotC}

\* All sequences over S of length at most n.
SeqUpTo(S, n) == UNION {[1..k -> S] : k \in 0..n}

\* The scenario "Host alpha beta, Host *, Include other.conf" (alpha, beta and
\* gamma are a, b and c; other.conf is b), and a file that includes the same
\* files under several spellings between two Host lines.
ScenarioFile == <<HostAB, HostStar, IncludeB>>
SpellingsFile == <<HostAB, IncludeAll, IncludeTilde, IncludeDotC, HostCStarC>>

TopEntries ==
    {RegularFile(ls) : ls \in SeqUpTo(TopLines, MaxLines) \cup {ScenarioFile, SpellingsFile}}
    \cup {Absent, Unreadable}

\* b: absent, unreadable, the scenario's other.conf, or a file that includes
\* a back.
BEntries == {Absent, Unreadable, RegularFile(<<HostC>>),
             RegularFile(<<IncludeASpaced, HostB>>)}

\* c: absent, a file of lines that are skipped around one Host line, or a file
\* that includes b and itself.
CEntries == {Absent,
             RegularFile(<<Comment, Blank, <<>>, BareHost, BareInclude, OtherKeyword,
                           HostTabbed>>),
             RegularFile(<<IncludeBQuoted, IncludeCDotDot, HostCSlash>>)}

\* l: absent, or a symbolic link to b.
LEntries == {Absent, LinkTo("b")}

FileSystems ==
    {[n \in Names |-> CASE n = "a" -> a [] n = "b" -> b [] n = "c" -> c
                        [] n = "d" -> SubDir [] n = "l" -> l] :
        a \in TopEntries, b \in BEntries, c \in CEntries, l \in LEntries}

\* The config path parse_ssh_config is called with (relative to /h).
ApiConfigPath == <<"a">>

\* argparse's defaults; response is what the user typed at the prompt, if asked.
NotAsked == <<"?">>
DefaultArgs == [yes |-> FALSE, multi_file |-> FALSE, parent_profile |-> "Default",
                response |-> NotAsked]

\* What every run starts from, whatever its inputs.
Fresh ==
    /\ pc = "start"
    /\ stack = <<>>
    /\ visited = {}
    /\ hosts = <<>>
    /\ out = <<>>
    /\ calls = <<>>
    /\ profiles = <<>>
    /\ uuids = 0
    /\ disk = <<>>
    /\ writing = 0
    /\ status = "running"

Init ==
    /\ fs \in FileSystems
    /\ verbose \in BOOLEAN
    /\ args = DefaultArgs
    /\ Fresh

\* Lines 182-183: parse_ssh_config starts with an empty visited set.
ResolveStart ==
    /\ pc = "start"
    /\ pc' = "parse"
    /\ visited' = {}
    /\ stack' = <<RootFrame(ApiConfigPath)>>
    /\ UNCHANGED <<fs, verbose, hosts, out, calls, args, profiles, uuids, disk,
                   writing, status>>

ParseStep ==
    \/ EnterVisited
    \/ EnterError
    \/ EnterOpen
    \/ SkipLine
    \/ IncludeLine
    \/ HostLine
    \/ ReturnHosts
    \/ ResolveReturn

\* A call of parse_ssh_config on its own.
Next == ResolveStart \/ EnterMissing \/ ParseStep

Spec == Init /\ [][Next]_vars

(***************************************************************************)
(* Profile generation                                                      *)
(***************************************************************************)

HexLower == <<"0", "1", "2", "3", "4", "5", "6", "7", "8", "9", "a", "b", "c", "d", "e", "f">>
HexUpper == <<"0", "1", "2", "3", "4", "5", "6", "7", "8", "9", "A", "B", "C", "D", "E", "F">>

\* str(u) for the n-th value of uuid.uuid4(), n counted from 0.  uuid4 is
\* modelled as a source of values that never repeats: the n-th value is n.
UuidStr(n) == <<HexLower[((n \div 16) % 16) + 1], HexLower[(n % 16) + 1]>>

\* str.upper on the text of a UUID
UuidUpper(s) ==
    [i \in 1..Len(s) |->
        IF \E k \in 1..16 : HexLower[k] = s[i]
        THEN HexUpper[CHOOSE k \in 1..16 : HexLower[k] = s[i]]
        ELSE s[i]]

\* generate_guid, as the n-th call of uuid.uuid4
generate_guid(n) == UuidUpper(UuidStr(n))

\* One identifier is generated and given to every profile of the run.
SharedGuid(n, k) == n

\* The number of the uuid4 call made for the k-th profile of a run that
\* started after n calls.
GuidCall(n, k) == n + k - 1

create_profile(host_name, parent_profile, n) ==
    [key \in {"Name", "Guid", "Dynamic Profile Parent Name", "Custom Command",
              "Command", "Tags"} |->
        CASE key = "Name" -> host_name
          [] key = "Guid" -> generate_guid(n)
          [] key = "Dynamic Profile Parent Name" -> parent_profile
          [] key = "Custom Command" -> "Yes"
          [] key = "Command" -> <<"s", "s", "h", " ">> \o host_name
          [] key = "Tags" -> <<"ssh">>]

generate_profiles(hs, parent_profile) ==
    [k \in 1..Len(hs) |-> create_profile(hs[k].name, parent_profile, GuidCall(uuids, k))]

(***************************************************************************)
(* The writers                                                             *)
(***************************************************************************)

\* expand_path(args.output_dir)
OutputDir == expand_path(<<"/", "o">>)

JsonExt == <<".", "j", "s", "o", "n">>
SingleFileName == <<"s", "s", "h", "-", "h", "o", "s", "t", "s", ".", "j", "s", "o", "n">>
Wildcard == <<"w", "i", "l", "d", "c", "a", "r", "d">>

\* Line 280: the file name made of a profile's name.
FileNameOf(name) == Replace(Replace(name, "/", <<"_">>), "*", Wildcard)

\* Lines 280-281
FilePathOf(profile) == PathJoin(OutputDir, FileNameOf(profile["Name"]) \o JsonExt)

\* open(path, 'w') and json.dump: the file at path now holds object.
Written(d, path, object) == (path :> object) @@ d

(***************************************************************************)
(* main                                                                    *)
(***************************************************************************)

\* args.config
ConfigArg == <<"~", "/", "a">>

\* Line 422
ConfigPath == expand_path(ConfigArg)

\* What a user may type at the prompt.
Responses == {<<>>, <<"y">>, <<" ", "Y", "E", "S">>, <<"n">>, <<"n", "o">>, <<"y", "e">>}

\* Line 324-325: whether the typed response confirms.
confirm_write(response) ==
    Lower(Strip(response)) \in {<<>>, <<"y">>, <<"y", "e", "s">>}

\* The run goes on whatever the resolution returned.
AnyHosts(hs) == TRUE

\* Line 441: the run goes on when the resolution returned a host.
HasHosts(hs) == hs # <<>>

\* Lines 432-435: the config file does not exist.
MainConfigMissing ==
    /\ pc = "start"
    /\ ~Exists(ConfigPath)
    /\ out' = Append(out, [kind |-> "config not found", path |-> ConfigPath])
    /\ status' = "exit 1"
    /\ pc' = "done"
    /\ UNCHANGED <<fs, verbose, stack, visited, hosts, calls, args, profiles, uuids,
                   disk, writing>>

\* Lines 432-439: the config file exists and parse_ssh_config is called.
MainParse ==
    /\ pc = "start"
    /\ Exists(ConfigPath)
    /\ pc' = "parse"
    /\ visited' = {}
    /\ stack' = <<RootFrame(ConfigPath)>>
    /\ UNCHANGED <<fs, verbose, hosts, out, calls, args, profiles, uuids, disk,
                   writing, status>>

\* Lines 441-443
MainNoHosts ==
    /\ pc = "parsed"
    /\ ~HasHosts(hosts)
    /\ out' = Append(out, [kind |-> "no hosts", path |-> <<>>])
    /\ status' = "exit 0: no hosts"
    /\ pc' = "done"
    /\ UNCHANGED <<fs, verbose, stack, visited, hosts, calls, args, profiles, uuids,
                   disk, writing>>

\* Lines 445-452
MainGenerate ==
    /\ pc = "parsed"
    /\ HasHosts(hosts)
    /\ profiles' = generate_profiles(hosts, args.parent_profile)
    /\ uuids' = uuids + Len(hosts)
    /\ pc' = "generated"
    /\ UNCHANGED <<fs, verbose, stack, visited, hosts, out, calls, args, disk,
                   writing, status>>

\* Line 455 with --yes: nobody is asked.
MainConfirmSkipped ==
    /\ pc = "generated"
    /\ args.yes
    /\ pc' = "write"
    /\ UNCHANGED <<fs, verbose, stack, visited, hosts, out, calls, args, profiles,
                   uuids, disk, writing, status>>

\* Lines 455-456: the user is asked and confirms.
MainConfirmed ==
    /\ pc = "generated"
    /\ ~args.yes
    /\ \E response \in Responses :
          /\ confirm_write(response)
          /\ args' = [args EXCEPT !.response = response]
    /\ pc' = "write"
    /\ UNCHANGED <<fs, verbose, stack, visited, hosts, out, calls, profiles, uuids,
                   disk, writing, status>>

\* Lines 455-458: the user is asked and declines.
MainCancelled ==
    /\ pc = "generated"
    /\ ~args.yes
    /\ \E response \in Responses :
          /\ ~confirm_write(response)
          /\ args' = [args EXCEPT !.response = response]
    /\ out' = Append(out, [kind |-> "cancelled", path |-> <<>>])
    /\ status' = "exit 0: cancelled"
    /\ pc' = "done"
    /\ UNCHANGED <<fs, verbose, stack, visited, hosts, calls, profiles, uuids, disk,
                   writing>>

\* Lines 465-470 and write_single_file
MainWriteSingle ==
    /\ pc = "write"
    /\ ~args.multi_file
    /\ disk' = Written(disk, PathJoin(OutputDir, SingleFileName),
                       [Profiles |-> profiles])
    /\ status' = "done"
    /\ pc' = "done"
    /\ UNCHANGED <<fs, verbose, stack, visited, hosts, out, calls, args, profiles,
                   uuids, writing>>

\* Lines 463-464, 276-278: write_multi_file starts its loop.
MainWriteMulti ==
    /\ pc = "write"
    /\ args.multi_file
    /\ writing' = 1
    /\ pc' = "write_multi"
    /\ UNCHANGED <<fs, verbose, stack, visited, hosts, out, calls, args, profiles,
                   uuids, disk, status>>

\* Lines 278-293: one profile is written to its file.
WriteOne ==
    /\ pc = "write_multi"
    /\ writing <= Len(profiles)
    /\ LET profile == profiles[writing] IN
       disk' = Written(disk, FilePathOf(profile), [Profiles |-> <<profile>>])
    /\ writing' = writing + 1
    /\ UNCHANGED <<fs, verbose, pc, stack, visited, hosts, out, calls, args, profiles,
                   uuids, status>>

\* Lines 295-296, 469-470
WriteMultiReturn ==
    /\ pc = "write_multi"
    /\ writing > Len(profiles)
    /\ status' = "done"
    /\ pc' = "done"
    /\ UNCHANGED <<fs, verbose, stack, visited, hosts, out, calls, args, profiles,
                   uuids, disk, writing>>

(***************************************************************************)
(* The inputs of a run of main                                             *)
(***************************************************************************)

\* The longest config file main is run on.
MaxMainLines == 2

HostSlash == <<"H", "o", "s", "t", " ", "a", "/", "b", " ", "*", " ", "a", "_", "b">>
HostStarB == <<"H", "o", "s", "t", " ", "*", "b", " ", "b">>
HostBB == <<"H", "o", "s", "t", " ", "b", " ", "b">>

MainLines == {HostAB, HostBB, HostSlash, IncludeB, Comment}

MainFileSystems ==
    {[n \in Names |-> CASE n = "a" -> a [] n = "b" -> b [] n = "c" -> Absent
                        [] n = "d" -> SubDir [] n = "l" -> Absent] :
        a \in {RegularFile(ls) : ls \in SeqUpTo(MainLines, MaxMainLines)} \cup {Absent},
        b \in {RegularFile(<<HostStarB>>), RegularFile(<<IncludeASpaced, HostB>>),
               Unreadable}}

ParentProfiles == {"Default", "My Theme"}

InitMain ==
    /\ fs \in MainFileSystems
    /\ verbose \in BOOLEAN
    /\ args \in [yes : BOOLEAN, multi_file : BOOLEAN, parent_profile : ParentProfiles,
                 response : {NotAsked}]
    /\ Fresh

NextMain ==
    \/ MainConfigMissing
    \/ MainParse
    \/ ParseStep
    \/ MainNoHosts
    \/ MainGenerate
    \/ MainConfirmSkipped
    \/ MainConfirmed
    \/ MainCancelled
    \/ MainWriteSingle
    \/ MainWriteMulti
    \/ WriteOne
    \/ WriteMultiReturn

\* A run of main.
SpecMain == InitMain /\ [][NextMain]_vars

(***************************************************************************)
(* Properties                                                              *)
(***************************************************************************)

Range(seq) == {seq[k] : k \in 1..Len(seq)}

\* The names of a list of host entries.
NamesOf(hs) == [k \in 1..Len(hs) |-> hs[k].name]

\* The calls of parse_config_file that opened a file.
ParsedCalls == {k \in 1..Len(calls) : calls[k].outcome = "parsed"}

\* The calls of parse_config_file that returned at once.
FailedCalls == {k \in 1..Len(calls) : calls[k].outcome # "parsed"}

\* The entries the Host lines of the file opened by call k declare: one per
\* alias that is not the wildcard, read from the file itself.
Declared(k) ==
    LET lines == Stat(calls[k].path).lines IN
    {[name |-> Arguments(lines[i])[j],
      origin |-> Append(calls[k].trail, Place(i, <<>>)), tok |-> j] :
        <<i, j>> \in {ij \in (1..Len(lines)) \X (1..8) :
                        /\ LineKind(lines[ij[1]]) = "host"
                        /\ ij[2] <= Len(Arguments(lines[ij[1]]))
                        /\ Arguments(lines[ij[1]])[ij[2]] # <<"*">>}}

\* s is a proper prefix of t
IsPrefix(s, t) == Len(s) < Len(t) /\ SubSeq(t, 1, Len(s)) = s

\* Place p comes before place q in a file: an earlier line, or the same Include
\* line and a path that sorts first.
PlaceBefore(p, q) ==
    \/ p.line < q.line
    \/ (p.line = q.line /\ StrLess(p.path, q.path))

\* Entry e is read before entry f in a depth-first, pre-order reading of the
\* files: at the first place their origins differ e's comes first, or they are
\* aliases of one line and e's token comes first.
ReadBefore(e, f) ==
    \/ (e.origin = f.origin /\ e.tok < f.tok)
    \/ \E k \in 1..Len(e.origin) :
          /\ k <= Len(f.origin)
          /\ SubSeq(e.origin, 1, k - 1) = SubSeq(f.origin, 1, k - 1)
          /\ PlaceBefore(e.origin[k], f.origin[k])

InReadOrder(hs) == \A i, j \in 1..Len(hs) : i < j => ReadBefore(hs[i], hs[j])

\* The scenario's files: a is the scenario file, b holds "Host c".
ScenarioFs ==
    /\ fs["a"] = RegularFile(ScenarioFile)
    /\ fs["b"] = RegularFile(<<HostC>>)

(* C1: during one resolution every file, identified by its canonical path
   with symbolic links resolved, is opened and read at most once: no two calls
   of parse_config_file open the same file. *)
C1_EachFileReadOnce ==
    \A i, j \in ParsedCalls : calls[i].ino = calls[j].ino => i = j

\* The paths a resolution can visit: the absolute paths of the entries of /h.
Visitable == {PathJoin(Home, <<n>>) : n \in Names}

\* The longest file of the file system.
LongestFile == CHOOSE n \in 0..64 : /\ \E m \in Names : Len(fs[m].lines) = n
                                   /\ \A m \in Names : Len(fs[m].lines) <= n

\* The steps one activation still has to take by itself: a step per line left,
\* each of which may leave a call per entry of /h pending, the calls pending
\* now, and its return.
OwnSteps(frame) ==
    (Len(frame.lines) + 1 - frame.i) * (Cardinality(Names) + 1) + Len(frame.pending) + 1

RECURSIVE StackSteps(_)
StackSteps(stk) == IF stk = <<>> THEN 0 ELSE OwnSteps(Head(stk)) + StackSteps(Tail(stk))

\* A bound on the steps the resolution still takes: what the activations have
\* left, and a whole file for every path not yet visited.
StepsLeft ==
    (IF pc = "start" THEN 3 ELSE 0)
    + StackSteps(stack)
    + Cardinality(Visitable \ visited) * (LongestFile * (Cardinality(Names) + 1) + 2)

(* C2: the resolution terminates whatever the include graph is, cycles
   included: every step of it lowers a bound on the steps left that never goes
   below zero, and it is never stuck before parse_ssh_config returns.  A call
   on an already-visited file returns the empty list to its caller, which goes
   on: the call changes no host list, leaves every activation in place and
   only moves its caller to the next included file. *)
C2_Terminates ==
    /\ [](/\ StepsLeft >= 0
          /\ visited \subseteq Visitable
          /\ pc \in {"start", "parse", "parsed"}
          /\ pc = "parse" => (stack # <<>> /\ Len(stack) < MaxDepth))
    /\ [][StepsLeft' < StepsLeft]_vars
    /\ [][(Len(calls') > Len(calls) /\ calls'[Len(calls')].outcome = "visited")
            => /\ pc' = "parse"
               /\ Len(stack') = Len(stack)
               /\ \A k \in 1..Len(stack) :
                     /\ stack'[k].hosts = stack[k].hosts
                     /\ stack'[k].i = stack[k].i
               /\ stack'[Len(stack)].pending = Tail(stack[Len(stack)].pending)
               /\ visited' = visited]_vars

\* A cycle was met: a file was called again while it was being read.
C2_Witness ==
    /\ pc = "parsed"
    /\ \E k \in 1..Len(calls) :
          /\ calls[k].outcome = "visited"
          /\ \E m \in 1..(Len(calls[k].trail) - 1) :
                AbsPath(calls[k].trail[m].path) = calls[k].path

(* C3: the returned list is in strict file-read order, depth-first and
   pre-order: aliases of a Host line in token order, the entries of an Include
   line at the place of that line, the files one Include line matches in
   lexicographic order of their paths; the scenario file yields a, b, c. *)
C3_FileReadOrder ==
    /\ InReadOrder(hosts)
    /\ \A k \in 1..Len(stack) : InReadOrder(stack[k].hosts)
    /\ (pc = "parsed" /\ ScenarioFs) => NamesOf(hosts) = <<<<"a">>, <<"b">>, <<"c">>>>

\* A host of the top file, then hosts of two files matched by one Include line,
\* then a host of a later line of the top file.
C3_Witness ==
    /\ pc = "parsed"
    /\ \E i, j, k, m \in 1..Len(hosts) :
          /\ i < j /\ j < k /\ k < m
          /\ Len(hosts[i].origin) = 2 /\ Len(hosts[m].origin) = 2
          /\ Len(hosts[j].origin) = 3 /\ Len(hosts[k].origin) = 3
          /\ hosts[j].origin[2].line = hosts[k].origin[2].line
          /\ hosts[j].origin[2].path # hosts[k].origin[2].path
          /\ hosts[i].origin[2].line < hosts[j].origin[2].line
          /\ hosts[j].origin[2].line < hosts[m].origin[2].line

\* The line of its file an entry was read from.
LineOf(e) ==
    LET n == Len(e.origin) IN Stat(AbsPath(e.origin[n - 1].path)).lines[e.origin[n].line]

(* C4: no entry of the resolution, returned or still being collected, is
   named "*", and the other aliases of a Host line that holds a "*" are kept:
   each entry is the token of its line at its position, and with it every
   other token of that line that is not "*". *)
C4_NoWildcardEntry ==
    /\ \A e \in Range(hosts) : e.name # <<"*">>
    /\ \A k \in 1..Len(stack) : \A e \in Range(stack[k].hosts) : e.name # <<"*">>
    /\ pc = "parsed" =>
          \A e \in Range(hosts) :
             LET tokens == Arguments(LineOf(e)) IN
             /\ tokens[e.tok] = e.name
             /\ \A j \in 1..Len(tokens) :
                   tokens[j] # <<"*">> =>
                      [name |-> tokens[j], origin |-> e.origin, tok |-> j] \in Range(hosts)

\* Two aliases of one line were returned with a "*" between them.
C4_Witness ==
    /\ pc = "parsed"
    /\ \E e, f \in Range(hosts) :
          /\ e.origin = f.origin /\ e.tok + 2 = f.tok
          /\ Arguments(LineOf(e))[e.tok + 1] = <<"*">>

(* C7: a missing, unreadable or already-visited file is not fatal: the
   resolution returns exactly the entries declared by the files it opened, so
   a failed call contributes nothing and drops nothing of the lines before
   and after it or of the files beside it. *)
C7_FailuresAreNotFatal ==
    pc = "parsed" =>
       /\ \A k \in ParsedCalls : Declared(k) \subseteq Range(hosts)
       /\ \A e \in Range(hosts) : \E k \in ParsedCalls : e \in Declared(k)
       /\ \A k \in FailedCalls : \A e \in Range(hosts) : ~IsPrefix(calls[k].trail, e.origin)

\* An included file could not be read and one was already visited; hosts of the
\* including file before and after that line and of a later file matched by the
\* same line are returned.
C7_Witness ==
    /\ pc = "parsed"
    /\ \E k, v \in FailedCalls :
          /\ calls[k].outcome = "error" /\ calls[v].outcome = "visited"
          /\ Len(calls[k].trail) = 2
          /\ \E e, f, g \in Range(hosts) :
                /\ Len(e.origin) = 2 /\ e.origin[2].line < calls[k].trail[2].line
                /\ Len(g.origin) = 2 /\ g.origin[2].line > calls[k].trail[2].line
                /\ Len(f.origin) = 3 /\ f.origin[2].line = calls[k].trail[2].line
                /\ StrLess(calls[k].trail[2].path, f.origin[2].path)

(* C9: an Include line whose pattern matches no file adds no entry, logs
   exactly one diagnostic (in a verbose run) and lets the loop go on to the
   next line. *)
C9_ZeroMatchIsLogged ==
    [][(/\ AtLine
        /\ verbose
        /\ LineKind(Top.lines[Top.i]) = "include"
        /\ resolve_includes(Join(Arguments(Top.lines[Top.i])), Top.dir) = <<>>)
         => /\ Len(out') = Len(out) + 1
            /\ stack'[Len(stack)].hosts = Top.hosts
            /\ stack'[Len(stack)].i = Top.i + 1
            /\ pc' = "parse"]_vars

\* Whether generate_profiles has returned in this run.
Generated == pc \in {"generated", "write", "write_multi"} \/ status \in {"done", "exit 0: cancelled"}

(* C5: generate_profiles returns one record per host entry, in order: the
   i-th record has the i-th entry's name, the command "ssh " followed by that
   name, the caller's parent profile name, the tags ["ssh"] and the custom
   command flag set; any two records, also of one name, have distinct
   identifiers. *)
C5_OneProfilePerHost ==
    Generated =>
       /\ Len(profiles) = Len(hosts)
       /\ \A i \in 1..Len(profiles) :
             /\ profiles[i]["Name"] = hosts[i].name
             /\ profiles[i]["Command"] = <<"s", "s", "h", " ">> \o hosts[i].name
             /\ profiles[i]["Dynamic Profile Parent Name"] = args.parent_profile
             /\ profiles[i]["Tags"] = <<"ssh">>
             /\ profiles[i]["Custom Command"] = "Yes"
             /\ DOMAIN profiles[i] = {"Name", "Guid", "Dynamic Profile Parent Name",
                                      "Custom Command", "Command", "Tags"}
       /\ \A i, j \in 1..Len(profiles) :
             i # j => profiles[i]["Guid"] # profiles[j]["Guid"]

\* Profiles were generated for at least three hosts, two of them of one name,
\* under a parent profile that is not the default.
C5_Witness ==
    /\ pc = "generated"
    /\ Len(profiles) >= 3
    /\ args.parent_profile # "Default"
    /\ \E i, j \in 1..Len(profiles) : i # j /\ profiles[i]["Name"] = profiles[j]["Name"]

RECURSIVE SafeName(_)
\* A record's name with every / replaced by _ and every * by "wildcard".
SafeName(name) ==
    IF name = <<>> THEN <<>>
    ELSE (CASE Head(name) = "/" -> <<"_">>
            [] Head(name) = "*" -> <<"w", "i", "l", "d", "c", "a", "r", "d">>
            [] OTHER -> <<Head(name)>>) \o SafeName(Tail(name))

\* The file of a record called name: in the output directory, the safe name
\* and ".json".
ExpectedPath(name) == OutputDir \o <<"/">> \o SafeName(name) \o <<".", "j", "s", "o", "n">>

(* C6: after a multi-file write every record is in its own file of the
   output directory, named after the record's name with / replaced by _ (and
   * by "wildcard") plus .json; the file holds a profile array with exactly
   that record, and N records make N files. *)
C6_OneFilePerProfile ==
    (status = "done" /\ args.multi_file) =>
       /\ Cardinality(DOMAIN disk) = Len(profiles)
       /\ \A i \in 1..Len(profiles) :
             /\ ExpectedPath(profiles[i]["Name"]) \in DOMAIN disk
             /\ disk[ExpectedPath(profiles[i]["Name"])] = [Profiles |-> <<profiles[i]>>]

\* What the user typed confirms: yes, y or nothing, in any case, spaces aside.
AnsweredYes ==
    /\ args.response # NotAsked
    /\ Lower(Strip(args.response)) \in {<<>>, <<"y">>, <<"y", "e", "s">>}

\* A writer was called.
WriterCalled == pc \in {"write", "write_multi"} \/ disk # <<>> \/ status = "done"

(* C8: a writer is called only after the top-level config path was found to
   exist, the resolution returned at least one host and the write was
   confirmed (--yes, or a confirming answer to the prompt, asked only without
   --yes); when the config file does not exist the run ends as a failure,
   without any resolution and with nothing written. *)
C8_WriteOnlyAfterChecks ==
    /\ WriterCalled =>
          /\ Exists(ConfigPath)
          /\ calls # <<>> /\ stack = <<>>
          /\ hosts # <<>> /\ Len(profiles) = Len(hosts)
          /\ (args.yes \/ AnsweredYes)
          /\ (args.yes => args.response = NotAsked)
    /\ ~Exists(ConfigPath) =>
          /\ pc \in {"start", "done"}
          /\ pc = "done" => status = "exit 1"
          /\ calls = <<>> /\ stack = <<>> /\ visited = {} /\ hosts = <<>>
          /\ profiles = <<>> /\ disk = <<>>
    /\ status = "exit 1" => ~Exists(ConfigPath)
    /\ status = "exit 0: no hosts" => (hosts = <<>> /\ disk = <<>>)
    /\ status = "exit 0: cancelled" => (~AnsweredYes /\ disk = <<>>)

\* The files were written after the user, asked, answered " YES".
C8_Witness ==
    /\ status = "done"
    /\ disk # <<>>
    /\ ~args.yes
    /\ args.response = <<" ", "Y", "E", "S">>

RECURSIVE SumOver(_, _)
\* The sum of f over the set S.
SumOver(f, S) ==
    IF S = {} THEN 0
    ELSE LET x == CHOOSE y \in S : TRUE IN f[x] + SumOver(f, S \ {x})

\* How many aliases that are not "*" the Host lines of the opened files hold,
\* a file counted once for each time it was opened.
AliasOccurrences ==
    SumOver([k \in ParsedCalls |-> Cardinality(Declared(k))], ParsedCalls)

(* C10: duplicate aliases are not deduplicated: every occurrence of an alias
   that is not "*" in an opened file yields its own entry of the resolved list
   and its own profile record with its own identifier, so there are as many
   records as occurrences. *)
C10_DuplicatesAreKept ==
    /\ pc = "parsed" => Len(hosts) = AliasOccurrences
    /\ Generated =>
          /\ Len(profiles) = AliasOccurrences
          /\ \A k \in ParsedCalls : \A e \in Declared(k) :
                \E i \in 1..Len(profiles) :
                   /\ hosts[i] = e
                   /\ profiles[i]["Name"] = e.name
                   /\ \A j \in 1..Len(profiles) :
                         j # i => profiles[j]["Guid"] # profiles[i]["Guid"]

\* An alias declared twice in one file and once more in an included file has
\* three records.
C10_Witness ==
    /\ Generated
    /\ \E i, j, k \in 1..Len(profiles) :
          /\ i < j /\ j < k
          /\ profiles[i]["Name"] = profiles[j]["Name"]
          /\ profiles[j]["Name"] = profiles[k]["Name"]
          /\ hosts[i].origin # hosts[j].origin
          /\ Len(hosts[i].origin) # Len(hosts[k].origin)

=============================================================================
